---- MODULE Spec2Model ----
(***************************************************************************)
(* Model of Dashboard.py: the payroll dashboard script that Streamlit     *)
(* re-runs top to bottom on every interaction.                             *)
(*                                                                         *)
(* Text is a sequence of one-character strings.  Numbers are fixed-point:  *)
(* an integer count of hundredths, so Units(1) is the number 1 and the     *)
(* text "1234.50" is 123450.  A cell is a record tagged by k:              *)
(*   "str" text, "int"/"num" a number (int64 / float64), "nan" missing.    *)
(* Column names are written without accents.                               *)
(***************************************************************************)
EXTENDS Integers, Sequences, FiniteSets, TLC

(* ------------------------------------------------------------------ *)
(* Values                                                               *)
(* ------------------------------------------------------------------ *)

Units(n) == n * 100

NaN == [k |-> "nan"]

Num(v) == [k |-> "num", v |-> v]

IntCell(v) == [k |-> "int", v |-> v]

Str(s) == [k |-> "str", s |-> s]

None == [k |-> "None"]

(* ------------------------------------------------------------------ *)
(* Text                                                                 *)
(* ------------------------------------------------------------------ *)

Digits == <<"0", "1", "2", "3", "4", "5", "6", "7", "8", "9">>

IsDigit(c) == \E i \in 1..Len(Digits) : Digits[i] = c

DigitVal(c) == (CHOOSE i \in 1..Len(Digits) : Digits[i] = c) - 1

Whitespace == {" "}

RECURSIVE LStrip(_)
LStrip(s) == IF s # <<>> /\ Head(s) \in Whitespace THEN LStrip(Tail(s)) ELSE s

RECURSIVE RStrip(_)
RStrip(s) ==
  IF s # <<>> /\ s[Len(s)] \in Whitespace THEN RStrip(SubSeq(s, 1, Len(s) - 1)) ELSE s

\* str.strip()
Strip(s) == RStrip(LStrip(s))

AllDigits(s) == \A i \in 1..Len(s) : IsDigit(s[i])

RECURSIVE DigitsVal(_)
DigitsVal(s) ==
  IF s = <<>> THEN 0 ELSE DigitsVal(SubSeq(s, 1, Len(s) - 1)) * 10 + DigitVal(s[Len(s)])

RECURSIVE NatText(_)
NatText(n) == IF n < 10 THEN <<Digits[n + 1]>> ELSE NatText(n \div 10) \o <<Digits[(n % 10) + 1]>>

Abs(v) == IF v < 0 THEN -v ELSE v

\* the hundredths denoted by the fractional digits f (amounts carry at most two)
FracVal(f) ==
  (IF Len(f) >= 1 THEN DigitVal(f[1]) * 10 ELSE 0) + (IF Len(f) >= 2 THEN DigitVal(f[2]) ELSE 0)

\* the position of the first "." of b, Len(b) + 1 when it has none
DotPos(b) ==
  IF \E i \in 1..Len(b) : b[i] = "."
    THEN CHOOSE i \in 1..Len(b) : b[i] = "." /\ \A j \in 1..(i - 1) : b[j] # "."
    ELSE Len(b) + 1

\* integer digits ip and fractional digits fp: the number, or "err"
DecimalOf(ip, fp) ==
  IF AllDigits(ip) /\ AllDigits(fp) /\ Len(ip) + Len(fp) >= 1
    THEN Num(DigitsVal(ip) * 100 + FracVal(fp))
    ELSE [k |-> "err"]

DecimalAt(b, dot) == DecimalOf(SubSeq(b, 1, dot - 1), SubSeq(b, dot + 1, Len(b)))

\* an unsigned decimal literal: digits [ "." digits ], with at least one digit
DecimalVal(b) == DecimalAt(b, DotPos(b))

Unsigned(t) == IF t # <<>> /\ Head(t) \in {"+", "-"} THEN Tail(t) ELSE t

Negate(d, neg) == IF d.k = "num" /\ neg THEN Num(-d.v) ELSE d

ParseBody(b, neg) ==
  IF b \in {<<"n", "a", "n">>, <<"N", "a", "N">>, <<"N", "A", "N">>} THEN NaN
  ELSE Negate(DecimalVal(b), neg)

ParseStripped(t) == ParseBody(Unsigned(t), t # <<>> /\ Head(t) = "-")

\* float(text): surrounding whitespace and a sign are accepted, "nan" is the
\* float NaN, anything that is not a decimal literal raises ValueError ("err").
\* Exponents, "inf" and digit-group underscores are outside the modelled alphabet.
ParseFloat(s) == ParseStripped(Strip(s))

\* str(int)
IntText(v) == IF v < 0 THEN <<"-">> \o NatText((-v) \div 100) ELSE NatText(v \div 100)

\* str(float): the shortest decimal, always with a fractional part
FracText(c) ==
  IF c % 10 = 0 THEN <<Digits[(c \div 10) + 1]>>
  ELSE <<Digits[(c \div 10) + 1], Digits[(c % 10) + 1]>>

FloatText(v) ==
  (IF v < 0 THEN <<"-">> ELSE <<>>) \o NatText(Abs(v) \div 100) \o <<".">> \o FracText(Abs(v) % 100)

(* ------------------------------------------------------------------ *)
(* The source file and pd.read_csv                                      *)
(* ------------------------------------------------------------------ *)

monetary_columns ==
  << "SALARIO MENSUAL INDIVIDUAL", "Prestaciones AVG",
     "Prestaciones Ajustado", "Prima Servicios",
     "Cesantias", "Intereses Cesantias", "Vacaciones",
     "SENA", "ICBF", "Caja de Compensacion",
     "Salud", "Pension", "ARL (2% avg)",
     "Total Mensual (COP)", "Anual (COP)",
     "Mensual (USD)", "Anual (USD)" >>

MonetarySet == {monetary_columns[i] : i \in 1..Len(monetary_columns)}

componentes == <<"Salud", "Pension", "ARL (2% avg)", "SENA", "ICBF", "Caja de Compensacion">>

AllColumns == {"DEPARTAMENTO", "Nivel", "CANTIDAD"} \cup MonetarySet

\* the texts pd.read_csv reads as missing (its default na_values, those over the
\* modelled alphabet)
NAStrings ==
  { <<>>, <<"n", "/", "a">>, <<"N", "/", "A">>, <<"N", "A">>,
    <<"n", "a", "n">>, <<"N", "a", "N">>, <<"n", "u", "l", "l">> }

IsNA(t) == t \in NAStrings

IsIntText(t) == Unsigned(Strip(t)) # <<>> /\ AllDigits(Unsigned(Strip(t)))

\* the dtype pd.read_csv infers for a column from its texts
ColumnDtype(texts) ==
  IF \E i \in 1..Len(texts) : ~IsNA(texts[i]) /\ ParseFloat(texts[i]).k # "num" THEN "object"
  ELSE IF \A i \in 1..Len(texts) : IsIntText(texts[i]) THEN "int64"
  ELSE "float64"

ReadCell(dtype, t) ==
  IF IsNA(t) THEN NaN
  ELSE IF dtype = "int64" THEN IntCell(ParseFloat(t).v)
  ELSE IF dtype = "float64" THEN Num(ParseFloat(t).v)
  ELSE Str(t)

Column(rows, c) == [i \in 1..Len(rows) |-> rows[i][c]]

SetColumn(df, c, series) ==
  [df EXCEPT !.rows = [i \in 1..Len(df.rows) |-> [df.rows[i] EXCEPT ![c] = series[i]]]]

Raise(e) == [k |-> "raise", exc |-> e]

\* pd.read_csv(path): a DataFrame, or the exception it raises
read_csv(f) ==
  IF f.kind = "missing" THEN Raise("FileNotFoundError")
  ELSE IF f.kind = "denied" THEN Raise("PermissionError")
  ELSE IF f.kind = "malformed" THEN Raise("ParserError")
  ELSE [ k    |-> "df",
         cols |-> f.cols,
         rows |-> [i \in 1..Len(f.rows) |->
                    [c \in f.cols |-> ReadCell(ColumnDtype(Column(f.rows, c)), f.rows[i][c])]] ]

(* ------------------------------------------------------------------ *)
(* clean_money_optimized                                                *)
(* ------------------------------------------------------------------ *)

\* .astype(str) of one element
AsStr(c) ==
  IF c.k = "nan" THEN <<"n", "a", "n">>
  ELSE IF c.k = "int" THEN IntText(c.v)
  ELSE IF c.k = "num" THEN FloatText(c.v)
  ELSE c.s

\* .str.replace(r'[$,]', '', regex=True) of one element
ReplaceSymbols(s) == SelectSeq(s, LAMBDA ch : ch \notin {"$", ","})

\* .replace('', np.nan) of one element: NaN, or the text kept
ReplaceEmpty(s) == IF s = <<>> THEN NaN ELSE Str(s)

\* .astype(float) of one element: NaN stays NaN, text is parsed
AsFloat(c) == IF c.k = "nan" THEN NaN ELSE ParseFloat(c.s)

CleanCell(c) == AsFloat(ReplaceEmpty(Strip(ReplaceSymbols(AsStr(c)))))

\* the cleaned series, or ValueError when some element does not parse
AsFloatSeries(out) ==
  IF \E i \in 1..Len(out) : out[i].k = "err" THEN Raise("ValueError")
  ELSE [k |-> "series", s |-> out]

clean_money_optimized(series) == AsFloatSeries([i \in 1..Len(series) |-> CleanCell(series[i])])

(* ------------------------------------------------------------------ *)
(* load_data_optimized (the body, without the cache)                    *)
(* ------------------------------------------------------------------ *)

\* lines 56-58: clean the monetary columns monetary_columns[j..] that are present
RECURSIVE CleanColumns(_, _)
\* line 58 for one column: the assignment, or the exception of the right-hand side
AssignCleaned(df, j, r) ==
  IF r.k = "raise" THEN r ELSE CleanColumns(SetColumn(df, monetary_columns[j], r.s), j + 1)

CleanColumns(df, j) ==
  IF j > Len(monetary_columns) THEN df
  ELSE IF monetary_columns[j] \notin df.cols THEN CleanColumns(df, j + 1)
  ELSE AssignCleaned(df, j, clean_money_optimized(Column(df.rows, monetary_columns[j])))

CleanMonetary(df) == CleanColumns(df, 1)

Coerce(r) == IF r.k = "num" THEN r ELSE NaN

\* pd.to_numeric(x, errors='coerce') of one element
to_numeric(c) ==
  IF c.k = "str" THEN Coerce(ParseFloat(c.s))
  ELSE IF c.k = "int" THEN Num(c.v)
  ELSE c

fillna(c, v) == IF c.k = "nan" THEN Num(v) ELSE c

\* line 62 with .fillna(0)
CoerceCantidadZero(df) ==
  IF "CANTIDAD" \notin df.cols THEN Raise("KeyError")
  ELSE SetColumn(df, "CANTIDAD",
         [i \in 1..Len(df.rows) |-> fillna(to_numeric(df.rows[i]["CANTIDAD"]), 0)])

\* line 62
CoerceCantidad(df) ==
  IF "CANTIDAD" \notin df.cols THEN Raise("KeyError")
  ELSE SetColumn(df, "CANTIDAD",
         [i \in 1..Len(df.rows) |-> fillna(to_numeric(df.rows[i]["CANTIDAD"]), Units(1))])

\* line 65 left out
FillMonetarySkipped(df) == IF ~(MonetarySet \subseteq df.cols) THEN Raise("KeyError") ELSE df

\* line 65
FillMonetary(df) ==
  IF ~(MonetarySet \subseteq df.cols) THEN Raise("KeyError")
  ELSE [df EXCEPT !.rows =
          [i \in 1..Len(df.rows) |->
             [c \in df.cols |-> IF c \in MonetarySet THEN fillna(df.rows[i][c], 0)
                                ELSE df.rows[i][c]]]]

\* lines 42-67: the try block, a DataFrame or the exception raised
\* each statement of the try block runs unless an earlier one raised
AfterCoerce(counted) == IF counted.k = "raise" THEN counted ELSE FillMonetary(counted)

AfterClean(cleaned) == IF cleaned.k = "raise" THEN cleaned ELSE AfterCoerce(CoerceCantidad(cleaned))

AfterRead(raw) == IF raw.k = "raise" THEN raw ELSE AfterClean(CleanMonetary(raw))

TryLoad(f) == AfterRead(read_csv(f))

ErrNotFound == [msg |-> "Error: El archivo Planta.csv no fue encontrado", e |-> "FileNotFoundError"]

ErrParse(e) == [msg |-> "Error al parsear el archivo CSV", e |-> e]

ErrUnexpected(e) == [msg |-> "Error inesperado al cargar los datos", e |-> e]

ErrNoData == [msg |-> "No se pudieron cargar los datos", e |-> "None"]

\* lines 41-76: the value returned and the st.error calls made on the way
\* except clauses that return None without calling st.error
HandleSilently(r) ==
  IF r.k = "df" THEN [value |-> r, messages |-> <<>>] ELSE [value |-> None, messages |-> <<>>]

\* the return statement, or the except clause that handles the exception
Handle(r) ==
  IF r.k = "df" THEN [value |-> r, messages |-> <<>>]
  ELSE IF r.exc = "FileNotFoundError" THEN [value |-> None, messages |-> <<ErrNotFound>>]
  ELSE IF r.exc = "ParserError" THEN [value |-> None, messages |-> <<ErrParse(r.exc)>>]
  ELSE [value |-> None, messages |-> <<ErrUnexpected(r.exc)>>]

load_data_optimized(f) == Handle(TryLoad(f))

(* ------------------------------------------------------------------ *)
(* st.cache_data                                                        *)
(* ------------------------------------------------------------------ *)

NoCache == [k |-> "empty"]

\* what a call through the cache gives: the cache afterwards, the value returned,
\* the st.error elements shown, and the number of pd.read_csv calls made
Call(c, value, messages, read) == [cache |-> c, value |-> value, messages |-> messages, read |-> read]

\* a miss: the body has run, and its return value and elements are stored (src
\* records the file as it was read)
Store(r, f) ==
  Call([k |-> "entry", value |-> r.value, messages |-> r.messages, src |-> f],
       r.value, r.messages, 1)

\* a miss that stores nothing when the body returned None
StoreUnlessNone(r, f) == IF r.value = None THEN Call(NoCache, r.value, r.messages, 1) ELSE Store(r, f)

\* a hit: the stored value is returned and the stored elements are replayed
Replay(c) == Call(c, c.value, c.messages, 0)

cache_data_uncached(c, f) == Store(load_data_optimized(f), f)

cache_data_successes_only(c, f) ==
  IF c.k = "empty" THEN StoreUnlessNone(load_data_optimized(f), f) ELSE Replay(c)

\* @st.cache_data around load_data_optimized(): the function takes no argument,
\* so there is one entry, and the body runs only when there is none
cache_data(c, f) ==
  IF c.k = "empty" THEN Store(load_data_optimized(f), f) ELSE Replay(c)

(* ------------------------------------------------------------------ *)
(* Filter                                                               *)
(* ------------------------------------------------------------------ *)

\* Series.unique()
Unique(rows, c) == {rows[i][c] : i \in 1..Len(rows)}

\* Series.isin(values)
isin(series, values) == [i \in 1..Len(series) |-> series[i] \in values]

\* mask1 | mask2
MaskOr(m1, m2) == [i \in 1..Len(m1) |-> m1[i] \/ m2[i]]

\* mask1 & mask2
MaskAnd(m1, m2) == [i \in 1..Len(m1) |-> m1[i] /\ m2[i]]

\* df[mask]: the rows whose mask element is True, in order
RECURSIVE BoolIndex(_, _, _)
BoolIndex(rows, mask, i) ==
  IF i > Len(rows) THEN <<>>
  ELSE (IF mask[i] THEN <<rows[i]>> ELSE <<>>) \o BoolIndex(rows, mask, i + 1)

\* lines 101-104
FilterRows(d, departamento_, nivel_) ==
  [d EXCEPT !.rows =
     BoolIndex(d.rows,
               MaskAnd(isin(Column(d.rows, "DEPARTAMENTO"), departamento_),
                       isin(Column(d.rows, "Nivel"), nivel_)),
               1)]

(* ------------------------------------------------------------------ *)
(* Aggregations                                                         *)
(* ------------------------------------------------------------------ *)

\* Series.sum(): missing values are skipped, the empty sum is 0
RECURSIVE SeriesSum(_)
SeriesSum(series) ==
  IF series = <<>> THEN 0
  ELSE (IF Head(series).k = "nan" THEN 0 ELSE Head(series).v) + SeriesSum(Tail(series))

\* a / n rounded to the nearest integer, ties to even (a >= 0, n > 0)
RoundDiv(a, n) ==
  LET q == a \div n
      r == a % n
  IN IF 2 * r > n \/ (2 * r = n /\ q % 2 = 1) THEN q + 1 ELSE q

RoundSigned(a, n) == IF a < 0 THEN -RoundDiv(-a, n) ELSE RoundDiv(a, n)

\* Series.mean(): NaN when no value is present (kept to the hundredth)
MeanOf(present) ==
  IF present = <<>> THEN NaN ELSE Num(RoundSigned(SeriesSum(present), Len(present)))

SeriesMean(series) == MeanOf(SelectSeq(series, LAMBDA c : c.k # "nan"))

\* the rows of one group
Group(rows, key, g) == SelectSeq(rows, LAMBDA r : r[key] = g)

\* df.groupby(key)[c].sum(): one entry per key value present (missing keys dropped)
GroupSum(rows, key, c) ==
  [g \in {x \in Unique(rows, key) : x.k # "nan"} |-> Num(SeriesSum(Column(Group(rows, key, g), c)))]

\* .sort_values(ascending=True): the entries as <<key, value>>, values ascending
SortValues(f) ==
  CHOOSE s \in [1..Cardinality(DOMAIN f) -> (DOMAIN f) \X {f[g] : g \in DOMAIN f}] :
    /\ \A g \in DOMAIN f : \E i \in DOMAIN s : s[i] = <<g, f[g]>>
    /\ \A i, j \in DOMAIN s : i < j => s[i][2].v <= s[j][2].v

Pad3(n) == <<Digits[(n \div 100) + 1], Digits[((n \div 10) % 10) + 1], Digits[(n % 10) + 1]>>

RECURSIVE Thousands(_)
Thousands(n) == IF n < 1000 THEN NatText(n) ELSE Thousands(n \div 1000) \o <<",">> \o Pad3(n % 1000)

\* f"{x:,.0f}"
Format0f(x) ==
  IF x.k = "nan" THEN <<"n", "a", "n">>
  ELSE (IF x.v < 0 THEN <<"-">> ELSE <<>>) \o Thousands(RoundDiv(Abs(x.v), 100))

\* Series.count() in place of Series.sum()
TotalEmpleadosCount(v) == Num(Units(Len(v.rows)))

\* line 180
TotalEmpleados(v) == Num(SeriesSum(Column(v.rows, "CANTIDAD")))

\* line 184
CostoMensual(v) == Num(SeriesSum(Column(v.rows, "Total Mensual (COP)")))

\* line 188
PromedioSalario(v) == SeriesMean(Column(v.rows, "SALARIO MENSUAL INDIVIDUAL"))

\* lines 123, 138, 165, 180-197: everything computed from the filtered view
Aggregate(v) ==
  [ nivel_cantidad  |-> GroupSum(v.rows, "Nivel", "CANTIDAD"),
    dept_costs      |-> SortValues(GroupSum(v.rows, "DEPARTAMENTO", "Total Mensual (COP)")),
    df_componentes  |-> [i \in 1..Len(componentes) |-> SeriesMean(Column(v.rows, componentes[i]))],
    total_empleados |-> TotalEmpleados(v),
    costo_mensual   |-> CostoMensual(v),
    promedio_salario |-> PromedioSalario(v),
    resumen_dept    |->
      [g \in {x \in Unique(v.rows, "DEPARTAMENTO") : x.k # "nan"} |->
         [ Cantidad_de_Empleados |-> Num(SeriesSum(Column(Group(v.rows, "DEPARTAMENTO", g), "CANTIDAD"))),
           Salario_Promedio      |-> SeriesMean(Column(Group(v.rows, "DEPARTAMENTO", g),
                                                       "SALARIO MENSUAL INDIVIDUAL")),
           Costo_Total_Mensual   |-> Num(SeriesSum(Column(Group(v.rows, "DEPARTAMENTO", g),
                                                          "Total Mensual (COP)"))) ]] ]

\* lines 181, 185, 189: the three st.metric texts
MetricTexts(a) ==
  [ Total_Empleados     |-> Format0f(a.total_empleados),
    Costo_Mensual_Total |-> <<"$">> \o Format0f(a.costo_mensual) \o <<" ", "C", "O", "P">>,
    Salario_Promedio    |-> <<"$">> \o Format0f(a.promedio_salario) \o <<" ", "C", "O", "P">> ]

Charts == {"box", "bar_nivel", "bar_costos", "scatter", "pie"}

(* ------------------------------------------------------------------ *)
(* Source files considered                                              *)
(* ------------------------------------------------------------------ *)

MaxRows == 3

DeptA == <<"A">>

DeptB == <<"B">>

Junior == <<"J", "r">>

Senior == <<"S", "r">>

Row(d, l, q, sal, tot, other) ==
  [c \in AllColumns |->
     IF c = "DEPARTAMENTO" THEN d
     ELSE IF c = "Nivel" THEN l
     ELSE IF c = "CANTIDAD" THEN q
     ELSE IF c = "SALARIO MENSUAL INDIVIDUAL" THEN sal
     ELSE IF c = "Total Mensual (COP)" THEN tot
     ELSE other]

\* the rows files are made of; the first three are the departments {A, A, B},
\* quantities {2, 3, 1} and total monthly costs {"$1,000", "$2,000", "$500"}
PoolRows ==
  << Row(DeptA, Junior, <<"2">>, <<"$", "3", ",", "0", "0", "0">>,
         <<"$", "1", ",", "0", "0", "0">>, <<"1", "0", "0">>),
     Row(DeptA, Senior, <<"3">>, <<"$", "5", ",", "0", "0", "0", ".", "5", "0">>,
         <<"$", "2", ",", "0", "0", "0">>, <<>>),
     Row(DeptB, Junior, <<"1">>, <<" ", "4", "0", "0", "0", " ">>,
         <<"$", "5", "0", "0">>, <<"$", "5", "0">>),
     Row(DeptB, Senior, <<"n", "/", "a">>, <<>>,
         <<"1", ",", "5", "0", "0">>, <<"2", "5">>) >>

PoolRow(i) == PoolRows[((i - 1) % Len(PoolRows)) + 1]

Prefix(n) == [i \in 1..n |-> PoolRow(i)]

\* the texts one cell of a file may be overwritten with
RawCells ==
  { <<>>, <<" ">>, <<"a", "b", "c">>, <<"n", "/", "a">>, <<"$">>, <<"7">>,
    <<"1", ",", "2", "3", "4", ".", "5", "0">>, <<"$", " ", "2", ",", "5", "0", "0", " ">> }

EditedColumns == {"CANTIDAD", "SALARIO MENSUAL INDIVIDUAL", "Total Mensual (COP)", "Salud"}

Table(cols, rows) == [kind |-> "csv", cols |-> cols, rows |-> rows]

NoTable(kind) == [kind |-> kind]

Without(rows, c) == [i \in 1..Len(rows) |-> [x \in AllColumns \ {c} |-> rows[i][x]]]

ScenarioFile == Table(AllColumns, Prefix(3))

Files ==
  {NoTable("missing"), NoTable("malformed"), NoTable("denied")}
  \cup {Table(AllColumns, Prefix(n)) : n \in 0..MaxRows}
  \cup UNION {{Table(AllColumns, [Prefix(n) EXCEPT ![i][c] = t]) :
                 i \in 1..n, c \in EditedColumns, t \in RawCells} : n \in 1..MaxRows}
  \cup {Table(AllColumns \ {c}, Without(Prefix(MaxRows), c)) : c \in {"Salud", "CANTIDAD", "Nivel"}}

\* what the file may be replaced by while the application runs
ChangedFiles == {NoTable("missing"), NoTable("malformed"), Table(AllColumns, Prefix(1)), ScenarioFile}

(* ------------------------------------------------------------------ *)
(* State                                                                *)
(* ------------------------------------------------------------------ *)

VARIABLES
  file,          \* D:\Python\Planta.csv as it is on disk now
  cache,         \* the st.cache_data entry of load_data_optimized
  reads,         \* pd.read_csv calls since the cache was last empty
  first,         \* what the first load since the cache was last empty returned
  pc,            \* position of the script run: start, loaded, selected, filtered, done, raised
  df,            \* line 80
  departamento,  \* line 88
  nivel,         \* line 94
  df_filtered,   \* line 101
  agg,           \* the aggregates of lines 123-197
  metrics,       \* the st.metric texts
  errors,        \* the st.error elements of this run, in order
  rendered       \* the other elements of this run

vars ==
  <<file, cache, reads, first, pc, df, departamento, nivel, df_filtered, agg, metrics,
    errors, rendered>>

Unset == [k |-> "unset"]

Init ==
  /\ file \in Files
  /\ cache = NoCache
  /\ reads = 0
  /\ first = Unset
  /\ pc = "start"
  /\ df = Unset
  /\ departamento = {}
  /\ nivel = {}
  /\ df_filtered = Unset
  /\ agg = Unset
  /\ metrics = Unset
  /\ errors = <<>>
  /\ rendered = {}

\* line 80: df = load_data_optimized(), through the cache
Returned(r) ==
  /\ cache' = r.cache
  /\ reads' = reads + r.read
  /\ first' = IF first = Unset THEN r.value ELSE first
  /\ df' = r.value
  /\ errors' = r.messages

Load ==
  /\ pc = "start"
  /\ Returned(cache_data(cache, file))
  /\ pc' = "loaded"
  /\ UNCHANGED <<file, departamento, nivel, df_filtered, agg, metrics, rendered>>

\* lines 200-201: the else branch of "if df is not None"
NoData ==
  /\ pc = "loaded"
  /\ df = None
  /\ errors' = Append(errors, ErrNoData)
  /\ pc' = "done"
  /\ UNCHANGED <<file, cache, reads, first, df, departamento, nivel, df_filtered, agg,
                 metrics, rendered>>

\* lines 84-98: the title and the two multiselects; the user's selection is any
\* subset of the options (all of them when untouched)
Widgets ==
  /\ pc = "loaded"
  /\ df # None
  /\ "DEPARTAMENTO" \in df.cols /\ "Nivel" \in df.cols
  /\ \E d \in SUBSET Unique(df.rows, "DEPARTAMENTO"), n \in SUBSET Unique(df.rows, "Nivel") :
       /\ departamento' = d
       /\ nivel' = n
  /\ rendered' = {"title", "filtro_departamento", "filtro_nivel"}
  /\ pc' = "selected"
  /\ UNCHANGED <<file, cache, reads, first, df, df_filtered, agg, metrics, errors>>

\* line 90 or 96 on a table without the column: KeyError ends the run
WidgetsRaise ==
  /\ pc = "loaded"
  /\ df # None
  /\ ~("DEPARTAMENTO" \in df.cols /\ "Nivel" \in df.cols)
  /\ rendered' = IF "DEPARTAMENTO" \in df.cols THEN {"title", "filtro_departamento"} ELSE {"title"}
  /\ departamento' = IF "DEPARTAMENTO" \in df.cols THEN Unique(df.rows, "DEPARTAMENTO") ELSE {}
  /\ pc' = "raised"
  /\ UNCHANGED <<file, cache, reads, first, df, nivel, df_filtered, agg, metrics, errors>>

\* the filter applied to the cached object itself
FilterInPlace ==
  /\ pc = "selected"
  /\ df_filtered' = FilterRows(df, departamento, nivel)
  /\ cache' = [cache EXCEPT !.value = FilterRows(df, departamento, nivel)]
  /\ pc' = "filtered"
  /\ UNCHANGED <<file, reads, first, df, departamento, nivel, agg, metrics, errors, rendered>>

\* lines 101-104
Filter ==
  /\ pc = "selected"
  /\ df_filtered' = FilterRows(df, departamento, nivel)
  /\ pc' = "filtered"
  /\ UNCHANGED <<file, cache, reads, first, df, departamento, nivel, agg, metrics, errors,
                 rendered>>

\* lines 107-199: the charts, the metrics and the summary table
Render ==
  /\ pc = "filtered"
  /\ agg' = Aggregate(df_filtered)
  /\ metrics' = MetricTexts(agg')
  /\ rendered' = rendered \cup Charts \cup {"metrics", "resumen"}
  /\ pc' = "done"
  /\ UNCHANGED <<file, cache, reads, first, df, departamento, nivel, df_filtered, errors>>

\* the run ends; the next interaction starts the script again from the top
EndRun ==
  /\ pc \in {"done", "raised"}
  /\ pc' = "start"
  /\ df' = Unset
  /\ departamento' = {}
  /\ nivel' = {}
  /\ df_filtered' = Unset
  /\ agg' = Unset
  /\ metrics' = Unset
  /\ errors' = <<>>
  /\ rendered' = {}
  /\ UNCHANGED <<file, cache, reads, first>>

\* the file is replaced on disk between two runs
FileChange ==
  /\ pc = "start"
  /\ \E f \in ChangedFiles \ {file} : file' = f
  /\ UNCHANGED <<cache, reads, first, pc, df, departamento, nivel, df_filtered, agg, metrics,
                 errors, rendered>>

\* st.cache_data.clear(), or the process restarts
CacheClear ==
  /\ pc = "start"
  /\ cache # NoCache
  /\ cache' = NoCache
  /\ reads' = 0
  /\ first' = Unset
  /\ UNCHANGED <<file, pc, df, departamento, nivel, df_filtered, agg, metrics, errors, rendered>>

Next ==
  \/ Load
  \/ NoData
  \/ Widgets
  \/ WidgetsRaise
  \/ Filter
  \/ Render
  \/ EndRun
  \/ FileChange
  \/ CacheClear

Spec == Init /\ [][Next]_vars

(* ------------------------------------------------------------------ *)
(* Properties                                                           *)
(* ------------------------------------------------------------------ *)

Loaded == cache.k = "entry" /\ cache.value # None

\* a monetary text with "$" and "," removed and whitespace stripped
Residual(t) == Strip(ReplaceSymbols(t))

\* the rows of d selected by departments D and levels L, as a set of positions
Selected(d, D, L) ==
  {i \in 1..Len(d.rows) : d.rows[i]["DEPARTAMENTO"] \in D /\ d.rows[i]["Nivel"] \in L}

\* the k-th smallest element of a set of positions
Kth(S, k) == CHOOSE i \in S : Cardinality({j \in S : j <= i}) = k

RECURSIVE SumOver(_, _, _)
SumOver(S, d, c) ==
  IF S = {} THEN 0
  ELSE LET i == CHOOSE x \in S : TRUE IN d.rows[i][c].v + SumOver(S \ {i}, d, c)

\* C1: a monetary cell whose residual text is non-empty and not a number does not
\* fail the load: the load returns a table in which that cell is 0.
C1_UnparsableCellLoadsAsZero ==
  (cache.k = "entry" /\ cache.src.kind = "csv" /\ cache.src.cols = AllColumns) =>
    \A i \in 1..Len(cache.src.rows) : \A c \in MonetarySet :
      (Residual(cache.src.rows[i][c]) # <<>> /\ ParseFloat(Residual(cache.src.rows[i][c])).k = "err")
        => (cache.value # None /\ cache.value.rows[i][c] = Num(0))

\* C2 as claimed: a failed load leaves the run without dataset and without any
\* filter, chart, metric or table, and with exactly one error message.
C2_FailureShowsOneMessage ==
  (pc = "done" /\ df = None) =>
    (rendered = {} /\ df_filtered = Unset /\ agg = Unset /\ metrics = Unset /\ Len(errors) = 1)

\* C2 as amended: every load that raises leaves the run without dataset, and a run
\* without dataset renders no filter, chart, metric or table and shows exactly two
\* error messages: the loader's classified message, then the general one.
C2_FailureShowsTwoMessages ==
  /\ (pc = "loaded" /\ TryLoad(cache.src).k = "raise") => df = None
  /\ (pc = "done" /\ df = None) =>
       /\ rendered = {} /\ df_filtered = Unset /\ agg = Unset /\ metrics = Unset
       /\ Len(errors) = 2
       /\ errors[1] \in {ErrNotFound, ErrParse("ParserError"), ErrUnexpected("PermissionError"),
                         ErrUnexpected("ValueError"), ErrUnexpected("KeyError")}
       /\ errors[2] = ErrNoData

C2_Witness ==
  /\ pc = "done" /\ df = None /\ reads = 1
  /\ cache.src.kind = "malformed" /\ file.kind = "csv"
  /\ errors = <<ErrParse("ParserError"), ErrNoData>>

\* C3: in a table returned by a successful load every cell of every monetary
\* column is a number, and a cell that was empty, whitespace-only or missing is 0.
C3_MonetaryCellsAreNumbers ==
  Loaded =>
    /\ Len(cache.value.rows) = Len(cache.src.rows)
    /\ \A i \in 1..Len(cache.value.rows) : \A c \in MonetarySet :
         /\ cache.value.rows[i][c].k = "num"
         /\ (Strip(cache.src.rows[i][c]) = <<>> \/ IsNA(cache.src.rows[i][c]))
              => cache.value.rows[i][c] = Num(0)

C3_Witness ==
  /\ Loaded
  /\ \E i \in 1..Len(cache.src.rows) :
       /\ cache.src.rows[i]["Total Mensual (COP)"] = <<" ">>
       /\ cache.src.rows[i]["Salud"] = <<>>
       /\ cache.value.rows[i]["Total Mensual (COP)"] = Num(0)
       /\ cache.value.rows[i]["Salud"] = Num(0)

\* the monetary cells of file f all clean to a number or to missing
MoneyParses(f) ==
  \A i \in 1..Len(f.rows) : \A c \in MonetarySet :
    IsNA(f.rows[i][c]) \/ Residual(f.rows[i][c]) = <<>> \/ ParseFloat(Residual(f.rows[i][c])).k # "err"

\* C4: a quantity cell that is missing or fails numeric coercion loads as exactly 1
\* and never fails the load; a quantity cell that coerces to a number keeps it.
C4_QuantityDefaultsToOne ==
  /\ Loaded =>
       \A i \in 1..Len(cache.value.rows) :
         cache.value.rows[i]["CANTIDAD"] =
           IF ~IsNA(cache.src.rows[i]["CANTIDAD"]) /\ ParseFloat(cache.src.rows[i]["CANTIDAD"]).k = "num"
             THEN Num(ParseFloat(cache.src.rows[i]["CANTIDAD"]).v)
             ELSE Num(Units(1))
  /\ (cache.k = "entry" /\ cache.src.kind = "csv" /\ cache.src.cols = AllColumns /\ MoneyParses(cache.src))
       => cache.value # None

C4_Witness ==
  /\ Loaded
  /\ \E i, j \in 1..Len(cache.src.rows) :
       /\ cache.src.rows[i]["CANTIDAD"] = <<"a", "b", "c">>
       /\ cache.value.rows[i]["CANTIDAD"] = Num(Units(1))
       /\ cache.src.rows[j]["CANTIDAD"] = <<"3">>
       /\ cache.value.rows[j]["CANTIDAD"] = Num(Units(3))

\* C5: the filtered view is exactly the rows of the table whose department is
\* selected and whose level is selected, in table order; with no department or no
\* level selected it has no row.
C5_FilterSelectsMatchingRows ==
  (pc \in {"filtered", "done"} /\ df # None) =>
    /\ df_filtered.cols = df.cols
    /\ Len(df_filtered.rows) = Cardinality(Selected(df, departamento, nivel))
    /\ \A k \in 1..Len(df_filtered.rows) :
         df_filtered.rows[k] = df.rows[Kth(Selected(df, departamento, nivel), k)]
    /\ (departamento = {} \/ nivel = {}) => df_filtered.rows = <<>>

C5_Witness ==
  /\ pc = "filtered"
  /\ departamento = {Str(DeptA)} /\ nivel = {Str(Senior)}
  /\ Len(df.rows) = 3 /\ df_filtered.rows = <<df.rows[2]>>

\* C6: while the cache is not cleared the file is read at most once, and every run
\* obtains the table the first load produced.
C6_FileReadOnce ==
  /\ reads <= 1
  /\ pc # "start" => (reads = 1 /\ df = first)

C6_Witness ==
  /\ pc = "loaded" /\ reads = 1
  /\ file # cache.src
  /\ df # None /\ df = load_data_optimized(cache.src).value
  /\ load_data_optimized(file).value \notin {None, df}

\* C7: the cached dataset is the one first loaded, and once it is cached no step of
\* a run changes it; only clearing the cache, between runs, removes it.
C7_CachedDatasetUnchanged ==
  /\ [](cache.k = "entry" => cache.value = first)
  /\ [][cache.k = "entry" => (cache' = cache \/ (pc = "start" /\ cache' = NoCache))]_vars

C7_Witness ==
  /\ pc = "done" /\ Loaded
  /\ cache.value = first
  /\ Len(df_filtered.rows) > 0 /\ Len(df_filtered.rows) < Len(cache.value.rows)

\* C8: over an empty filtered view the run completes, every sum is 0 or an empty
\* grouping, and every mean is an explicit "no data" state, neither a number nor NaN.
C8_EmptyViewMeansNoData ==
  (pc = "done" /\ df # None /\ df_filtered.rows = <<>>) =>
    /\ agg.total_empleados = Num(0) /\ agg.costo_mensual = Num(0)
    /\ DOMAIN agg.nivel_cantidad = {} /\ agg.dept_costs = <<>> /\ DOMAIN agg.resumen_dept = {}
    /\ agg.promedio_salario.k \notin {"nan", "num"}
    /\ \A i \in 1..Len(componentes) : agg.df_componentes[i].k \notin {"nan", "num"}
    /\ metrics.Salario_Promedio # <<"$">> \o Format0f(NaN) \o <<" ", "C", "O", "P">>

\* C9: total headcount is the sum of the loaded quantity over the rows selected by
\* the filters and total monthly cost the sum of their cleaned Total Mensual (COP);
\* departments {A, A, B}, quantities {2, 3, 1}, costs {"$1,000", "$2,000", "$500"}
\* filtered to department A give headcount 5 and cost 3000.
C9_TotalsSumFilteredRows ==
  (pc = "done" /\ df # None) =>
    /\ agg.total_empleados = Num(SumOver(Selected(df, departamento, nivel), df, "CANTIDAD"))
    /\ agg.costo_mensual = Num(SumOver(Selected(df, departamento, nivel), df, "Total Mensual (COP)"))
    /\ (cache.src = ScenarioFile /\ departamento = {Str(DeptA)} /\ nivel = {Str(Junior), Str(Senior)})
         => (agg.total_empleados = Num(Units(5)) /\ agg.costo_mensual = Num(Units(3000)))

C9_Witness ==
  /\ pc = "done"
  /\ cache.src = ScenarioFile /\ departamento = {Str(DeptA)} /\ nivel = {Str(Junior), Str(Senior)}
  /\ agg.total_empleados = Num(Units(5)) /\ agg.costo_mensual = Num(Units(3000))
  /\ metrics.Total_Empleados = <<"5">> /\ metrics.Costo_Mensual_Total = <<"$", "3", ",", "0", "0", "0", " ", "C", "O", "P">>

\* C10: once a load has failed, every later run before the cache is cleared has no
\* dataset and does not read the file again, even when the file has become readable.
C10_FailureIsMemoized ==
  (first = None) =>
    /\ reads = 1
    /\ cache.k = "entry" /\ cache.value = None
    /\ pc # "start" => df = None

C10_Witness ==
  /\ first = None /\ pc = "done" /\ df = None /\ reads = 1
  /\ file # cache.src
  /\ load_data_optimized(file).value # None

====
